---------------------------- MODULE Spec2Model ----------------------------
(***************************************************************************)
(* Adaptive surrogate-guided treatment combination search (skin-bdm).      *)
(*                                                                         *)
(*   scripts/study/adaptive_study.py   adaptive_consensus, fit_surrogate,  *)
(*                                     predict_combo, composite_score,     *)
(*                                     select_combos, compute_synergy, main*)
(*   batch/lib.py                      aggregate_csvs                      *)
(*                                                                         *)
(* Numbers.  The program computes in IEEE-754 binary floating point, so    *)
(* every arithmetic step rounds.  The model keeps that: a value is an      *)
(* integer count of quanta (one quantum = 1/QInv), representable when it   *)
(* has at most Precision significant bits, and every operation returns the *)
(* representable value nearest to the exact result, ties to even.  This is *)
(* binary64 with the mantissa shortened from 53 bits to Precision bits and *)
(* the smallest subnormal set to one quantum.                              *)
(***************************************************************************)
EXTENDS Integers, Sequences, FiniteSets, TLC

\* ------------------------------------------------------------------ bounds
Precision == 3      \* significant bits of a floating-point value
QBits     == 3      \* the quantum is 2^-QBits
MaxTopK   == 3      \* largest --top-k tried
MaxCsvs   == 3      \* most CSV files handed to aggregate_csvs
MaxRows   == 4      \* most rows of one CSV file
MaxRuns   == 2      \* largest --max-runs tried
MaxReplicates == 3  \* most replicates of one loop over the file system

\* ------------------------------------------------------- float arithmetic
RECURSIVE Pow2(_)
Pow2(n) == IF n = 0 THEN 1 ELSE 2 * Pow2(n - 1)

QInv == Pow2(QBits)

Abs(x) == IF x < 0 THEN -x ELSE x

\* unit in the last place of the binade that holds the magnitude x
RECURSIVE Ulp(_)
Ulp(x) == IF x < Pow2(Precision) THEN 1 ELSE 2 * Ulp(x \div 2)

\* the floating-point value nearest to num/den (den > 0), ties to even
RoundRat(num, den) ==
    LET a == Abs(num)
        u == Ulp(a \div den)
        d == den * u
        q == a \div d
        r == a % d
        m == IF 2 * r < d THEN q * u
             ELSE IF 2 * r > d THEN (q + 1) * u
             ELSE IF q % 2 = 0 THEN q * u ELSE (q + 1) * u
    IN  IF num < 0 THEN -m ELSE m

Fl(x)         == RoundRat(x, 1)
FAdd(a, b)    == Fl(a + b)
FSub(a, b)    == Fl(a - b)
FMul(a, b)    == RoundRat(a * b, QInv)
FDiv(a, b)    == IF b < 0 THEN RoundRat(-(a * QInv), -b) ELSE RoundRat(a * QInv, b)
FDivInt(a, n) == RoundRat(a, n)
FMax(a, b)    == IF a >= b THEN a ELSE b

\* the float of the integer n, and of the decimal literal n/10
Val(n)   == Fl(n * QInv)
Tenth(n) == RoundRat(n * QInv, 10)

\* ------------------------------------------------------ outcome records
\* Python's None: the value of a key that is missing or was never reached
None == -1000000

SCORE_KEYS == <<"time_to_50pct_days", "scar_magnitude", "peak_inflammation">>
KeySet     == {SCORE_KEYS[j] : j \in 1..Len(SCORE_KEYS)}

\* dict.get(key): a key that is absent reads as None
Get(d, key) == IF key \in DOMAIN d THEN d[key] ELSE None

\* Python truthiness of an optional number (None and 0 are falsy)
Truthy(x) == x # None /\ x # 0

\* sum(generator): left to right from the integer 0
RECURSIVE FSum(_)
FSum(s) == IF s = << >> THEN 0
           ELSE FAdd(FSum(SubSeq(s, 1, Len(s) - 1)), s[Len(s)])

\* --------------------------------------------------------- surrogate model
fit_delta_swapped(b, t) == IF b # None /\ t # None THEN FSub(b, t) ELSE 0
fit_delta(b, t) == IF b # None /\ t # None THEN FSub(t, b) ELSE 0

fit_surrogate_every(baseline, singles) ==
    [name \in {"growth_factor", "hbo", "npwt"} |->
        [key \in KeySet |->
            fit_delta(Get(baseline, key),
                      IF name \in DOMAIN singles THEN Get(singles[name], key) ELSE 0)]]
fit_surrogate(baseline, singles) ==
    [name \in DOMAIN singles |->
        [key \in KeySet |-> fit_delta(Get(baseline, key), Get(singles[name], key))]]

\* effects.get(t, {}).get(key, 0)
EffectOf_none(effects, t, key) == 0
EffectOf(effects, t, key) ==
    IF t \in DOMAIN effects /\ key \in DOMAIN effects[t] THEN effects[t][key] ELSE 0

predict_combo(baseline, effects, combo) ==
    [key \in KeySet |->
        LET g == Get(baseline, key)
            b == IF Truthy(g) THEN g ELSE 0
            total_effect == FSum([j \in 1..Len(combo) |-> EffectOf(effects, combo[j], key)])
        IN  FAdd(b, total_effect)]


\* ------------------------------------------------------------- scoring
T50Default == Val(30)      \* "or 30"
OneDefault == Val(1)       \* "or 1"
T50Floor   == Tenth(1)     \* max(b_t50, 0.1)
SmallFloor == 1            \* max(b, 1e-6): the smallest positive value of the grid
W40        == Tenth(4)     \* 0.4
W30        == Tenth(3)     \* 0.3

\* "x or d"
OrDefault(x, d) == IF Truthy(x) THEN x ELSE d

composite_score(outcomes, baseline) ==
    LET b_t50  == OrDefault(Get(baseline, "time_to_50pct_days"), T50Default)
        t_t50  == OrDefault(Get(outcomes, "time_to_50pct_days"), T50Default)
        s1     == FAdd(0, FMul(W40, FDiv(t_t50, FMax(b_t50, T50Floor))))
        b_scar == OrDefault(Get(baseline, "scar_magnitude"), OneDefault)
        t_scar == OrDefault(Get(outcomes, "scar_magnitude"), OneDefault)
        s2     == FAdd(s1, FMul(W30, FDiv(t_scar, FMax(b_scar, SmallFloor))))
        b_infl == OrDefault(Get(baseline, "peak_inflammation"), OneDefault)
        t_infl == OrDefault(Get(outcomes, "peak_inflammation"), OneDefault)
    IN  FAdd(s2, FMul(W30, FDiv(t_infl, FMax(b_infl, SmallFloor))))

\* itertools.combinations(s, r): the r-tuples of s in lexicographic index order
RECURSIVE combinations(_, _)
combinations(s, r) ==
    IF r = 0 THEN << << >> >>
    ELSE IF Len(s) < r THEN << >>
    ELSE LET rest == combinations(Tail(s), r - 1)
         IN  [j \in 1..Len(rest) |-> <<Head(s)>> \o rest[j]] \o combinations(Tail(s), r)

\* for r in range(lo, len(treatments) + 1): all_combos += combinations(treatments, r)
RECURSIVE combos_from(_, _)
combos_from(treatments, r) ==
    IF r > Len(treatments) THEN << >>
    ELSE combinations(treatments, r) \o combos_from(treatments, r + 1)

all_combos_of(treatments) == combos_from(treatments, 2)

\* list.sort(key=lambda x: x[2]): ascending, stable
sort_insert_unstable(sorted, x) ==
    LET p == Cardinality({j \in 1..Len(sorted) : sorted[j].score < x.score})
    IN  SubSeq(sorted, 1, p) \o <<x>> \o SubSeq(sorted, p + 1, Len(sorted))
sort_insert(sorted, x) ==
    LET p == Cardinality({j \in 1..Len(sorted) : sorted[j].score <= x.score})
    IN  SubSeq(sorted, 1, p) \o <<x>> \o SubSeq(sorted, p + 1, Len(sorted))

RECURSIVE sort_by_score(_)
sort_by_score(s) ==
    IF s = << >> THEN << >>
    ELSE sort_insert(sort_by_score(SubSeq(s, 1, Len(s) - 1)), s[Len(s)])

\* s[:k]
SliceTo_all(s, k) == s
SliceTo(s, k) ==
    LET stop == IF k < 0 THEN FMax(Len(s) + k, 0) ELSE IF k < Len(s) THEN k ELSE Len(s)
    IN  SubSeq(s, 1, stop)

\* the scored list both select_combos and main (phase 3) build
score_all(baseline, effects, all_combos) ==
    [j \in 1..Len(all_combos) |->
        LET predicted == predict_combo(baseline, effects, all_combos[j])
        IN  [combo |-> all_combos[j], predicted |-> predicted,
             score |-> composite_score(predicted, baseline)]]

select_combos(baseline, effects, all_combos, top_k) ==
    SliceTo(sort_by_score(score_all(baseline, effects, all_combos)), top_k)

\* ------------------------------------------------------------- synergy
Eps12 == 0      \* 1e-12 on the grid: below one quantum

synergy_key_swapped(obs, pred, base) ==
    IF obs # None /\ pred # None /\ base # None /\ Abs(base) > Eps12
    THEN FDiv(FSub(obs, pred), Abs(base)) ELSE 0
synergy_key(obs, pred, base) ==
    IF obs # None /\ pred # None /\ base # None /\ Abs(base) > Eps12
    THEN FDiv(FSub(pred, obs), Abs(base)) ELSE 0

compute_synergy(observed, predicted, baseline) ==
    LET synergy == [key \in KeySet |->
                      synergy_key(Get(observed, key), Get(predicted, key), Get(baseline, key))]
        mean    == FDivInt(FSum([j \in 1..Len(SCORE_KEYS) |-> synergy[SCORE_KEYS[j]]]),
                           Len(SCORE_KEYS))
    IN  [key \in KeySet \cup {"mean"} |-> IF key = "mean" THEN mean ELSE synergy[key]]


\* print_synergy_report: the verdict of one combination
Verdict_inclusive(syn) == IF syn >= Tenth(1) THEN "SYNERGISTIC"
                          ELSE IF syn <= -Tenth(1) THEN "ANTAGONISTIC" ELSE "additive"
Verdict(syn) == IF syn > Tenth(1) THEN "SYNERGISTIC"
                ELSE IF syn < -Tenth(1) THEN "ANTAGONISTIC" ELSE "additive"

\* print_synergy_report: one line per result, highest mean synergy first
\* (sorted by -synergy_mean, stable); nothing for an empty list
print_synergy_report(results) ==
    sort_by_score([j \in 1..Len(results) |->
                      [config  |-> results[j].config,
                       score   |-> -results[j].synergy["mean"],
                       verdict |-> Verdict(results[j].synergy["mean"])]])

\* ------------------------------------------- consensus over CSV time series
\* floor of the square root
RECURSIVE Isqrt(_)
Isqrt(y) == IF y < 2 THEN y
            ELSE LET s == 2 * Isqrt(y \div 4)
                 IN  IF (s + 1) * (s + 1) <= y THEN s + 1 ELSE s

\* math.sqrt: the floating-point value nearest to the square root of v (v >= 0)
FSqrt(v) ==
    LET y  == v * QInv
        s  == Isqrt(y)
        u  == Ulp(s)
        lo == (s \div u) * u
        m2 == (2 * lo + u) * (2 * lo + u)      \* (2 * midpoint)^2
    IN  IF 4 * y < m2 THEN lo
        ELSE IF 4 * y > m2 THEN lo + u
        ELSE IF (lo \div u) % 2 = 0 THEN lo ELSE lo + u

\* sorted(lengths)
RECURSIVE SortInts(_)
SortInts(s) ==
    IF s = << >> THEN << >>
    ELSE LET rest == SortInts(SubSeq(s, 1, Len(s) - 1))
             x    == s[Len(s)]
             p    == Cardinality({j \in 1..Len(rest) : rest[j] <= x})
         IN  SubSeq(rest, 1, p) \o <<x>> \o SubSeq(rest, p + 1, Len(rest))

MaxOf(S) == CHOOSE x \in S : \A y \in S : y <= x

\* the numeric columns of a loaded CSV (all of one length: the rows)
Columns == {"time_h", "wound_closure_pct"}
RowsOf(d) == Len(d["wound_closure_pct"])

\* lengths_sorted[len(lengths_sorted) // 2]
median_of(lengths) == SortInts(lengths)[(Len(lengths) \div 2) + 1]

\* max(1, int(median_len * min_length_fraction)); the fraction is num/den with den
\* a power of two, so the float product is exact and int() only truncates
min_len_of(median_len, frac) == FMax(1, (median_len * frac.num) \div frac.den)

\* m = sum(vals) / len(vals)
row_mean(vals) == FDivInt(FSum(vals), Len(vals))

\* v = sum((x - m) ** 2 for x in vals) / len(vals); math.sqrt(v)
row_std(vals) ==
    LET m == row_mean(vals)
        v == FDivInt(FSum([j \in 1..Len(vals) |-> FMul(FSub(vals[j], m), FSub(vals[j], m))]),
                     Len(vals))
    IN  FSqrt(v)

\* [d[col][i] for d in filtered if i < len(d[col])]
vals_at_padded(filtered, col, i) ==
    [j \in 1..Len(filtered) |-> IF i <= Len(filtered[j][col]) THEN filtered[j][col][i] ELSE 0]
vals_at(filtered, col, i) ==
    LET have == SelectSeq(filtered, LAMBDA d : i <= Len(d[col]))
    IN  [j \in 1..Len(have) |-> have[j][col][i]]

\* n_rows: the consensus runs to the longest surviving run
n_rows_shortest(filtered) ==
    -MaxOf({-RowsOf(filtered[j]) : j \in 1..Len(filtered)})
n_rows_of(filtered) == MaxOf({RowsOf(filtered[j]) : j \in 1..Len(filtered)})

\* for d, length in zip(all_data, lengths): if length >= min_len: filtered.append(d)
keep_runs_strict(all_data, min_len) == SelectSeq(all_data, LAMBDA d : RowsOf(d) > min_len)
keep_runs(all_data, min_len) == SelectSeq(all_data, LAMBDA d : RowsOf(d) >= min_len)

\* if not filtered: filtered = all_data
fallback_first(kept, all_data) == IF kept = << >> THEN <<all_data[1]>> ELSE kept
fallback(kept, all_data) == IF kept = << >> THEN all_data ELSE kept

aggregate_csvs(loaded, frac) ==
    LET all_data == SelectSeq(loaded, LAMBDA d : RowsOf(d) > 0)     \* "if d"
    IN  IF all_data = << >>
        THEN [mean_data |-> << >>, std_data |-> << >>, n_dropped |-> 0,
              all_data |-> all_data, kept |-> << >>, min_len |-> 0]
        ELSE
        LET lengths    == [j \in 1..Len(all_data) |-> RowsOf(all_data[j])]
            median_len == median_of(lengths)
            min_len    == min_len_of(median_len, frac)
            kept       == keep_runs(all_data, min_len)
            n_dropped  == Len(all_data) - Len(kept)
            filtered   == fallback(kept, all_data)
            n_rows     == n_rows_of(filtered)
        IN  [mean_data |-> [col \in Columns |->
                              [i \in 1..n_rows |->
                                 row_mean(vals_at(filtered, col, i))]],
             std_data  |-> [col \in Columns |->
                              [i \in 1..n_rows |-> row_std(vals_at(filtered, col, i))]],
             n_dropped |-> n_dropped, all_data |-> all_data, kept |-> filtered,
             min_len   |-> min_len]

\* ------------------------------------------------------ adaptive consensus
\* the values of one key over the outcomes that have it
vals_of(outcomes_list, key) ==
    LET have == SelectSeq(outcomes_list, LAMBDA o : Get(o, key) # None)
    IN  [j \in 1..Len(have) |-> have[j][key]]

\* sqrt(sum((v - mean) ** 2 for v in vals) / len(vals))
pop_std(vals, mean) ==
    FSqrt(FDivInt(FSum([j \in 1..Len(vals) |-> FMul(FSub(vals[j], mean), FSub(vals[j], mean))]),
                  Len(vals)))

\* the keys that contribute a coefficient of variation: at least 2 values and a
\* mean that is not below 1e-12 in magnitude
cv_keys(outcomes_list) ==
    SelectSeq(SCORE_KEYS, LAMBDA key :
        LET vals == vals_of(outcomes_list, key)
        IN  /\ Len(vals) >= 2
            /\ ~(Abs(FDivInt(FSum(vals), Len(vals))) <= Eps12))

\* "... if cvs else 1.0"
CvDefault_none == Val(0)
CvDefault == Val(1)

_compute_cv(outcomes_list) ==
    LET keys == cv_keys(outcomes_list)
        cvs  == [j \in 1..Len(keys) |->
                    LET vals == vals_of(outcomes_list, keys[j])
                        mean == FDivInt(FSum(vals), Len(vals))
                    IN  FDiv(pop_std(vals, mean), Abs(mean))]
    IN  IF cvs # << >> THEN FDivInt(FSum(cvs), Len(cvs)) ELSE CvDefault

\* _aggregate_outcomes: (mean_out, std_out) over the keys of the first outcome
_aggregate_outcomes(outcomes_list) ==
    LET keys == DOMAIN outcomes_list[1]
        last == outcomes_list[Len(outcomes_list)]
    IN  [mean_out |-> [key \in keys |->
                         LET vals == vals_of(outcomes_list, key)
                         IN  IF vals = << >> THEN Get(last, key)
                             ELSE FDivInt(FSum(vals), Len(vals))],
         std_out  |-> [key \in keys |->
                         LET vals == vals_of(outcomes_list, key)
                         IN  IF vals = << >> THEN 0
                             ELSE pop_std(vals, FDivInt(FSum(vals), Len(vals)))]]

\* for i in range(max_runs)
loop_continues_inclusive(i, max_runs) == i <= max_runs
loop_continues(i, max_runs) == i < max_runs

\* if len(outcomes_list) >= min_runs
may_stop_unchecked(n, min_runs) == TRUE
may_stop(n, min_runs) == n >= min_runs

\* if cv < cv_threshold: break
cv_below_inclusive(cv, cv_threshold) == cv <= cv_threshold
cv_below(cv, cv_threshold) == cv < cv_threshold

\* run_simulation (treatment_study): a non-zero exit code rc only prints a warning;
\* the metrics path is returned when metrics.csv exists after the process, None
\* otherwise.  TRUE stands for "a path was returned".
run_simulation_trusting_rc(rc, artifact) == artifact /\ rc = 0
run_simulation(rc, artifact) == artifact

\* "not d" for a dict
not_dict_never(d) == FALSE
not_dict_inverted(d) == d # << >>
not_dict(d) == d = << >>

\* ------------------------------------------------------------------ state
VARIABLES
    call,           \* the library call under test: its arguments, then its result
    args,           \* main: parsed command line (min_runs, max_runs, cv_threshold, top_k)
    treatments,     \* main: the treatment list
    sim_space,      \* the outcomes one simulation run may deliver
    pc,             \* main: the phase it is in
    ac_config,      \* adaptive_consensus: treatment_names
    ac_i,           \* adaptive_consensus: loop index i
    outcomes_list,  \* adaptive_consensus: outcomes of the successful runs
    ac_status,      \* adaptive_consensus: idle, collecting, converged, exhausted, returned
    ac_ret,         \* adaptive_consensus: the value returned
    n_invoked,      \* run_simulation calls made by the current adaptive_consensus
    sim_log,        \* every configuration run_simulation was called for
    proc,           \* adaptive_consensus: the simulation process of the current iteration
    baseline_mean, n_base, singles, t_idx,
    effects, all_scored, selected, c_idx,
    combo_results, all_results,
    report,         \* print_synergy_report: (config, verdict) lines
    done_steps      \* the steps of main that have completed

callVars    == <<call>>
samplerVars == <<ac_config, ac_i, outcomes_list, ac_status, ac_ret, n_invoked, sim_log,
                 proc>>
mainVars    == <<args, treatments, sim_space, pc, baseline_mean, n_base, singles, t_idx,
                 effects, all_scored, selected, c_idx, combo_results, all_results,
                 report, done_steps>>
vars        == <<callVars, samplerVars, mainVars>>

\* ---------------------------------------------------------- input spaces
Factors == <<"growth_factor", "hbo", "npwt">>      \* sorted(os.listdir(treatments/))

T50Space  == {None, Val(1), Val(14)}
ScarSpace == {None, 0, Val(6)}
InflSpace == {Val(6), Val(14)}

Outcome(t, s, p) ==
    [key \in KeySet |-> IF key = "time_to_50pct_days" THEN t
                        ELSE IF key = "scar_magnitude" THEN s ELSE p]

OutcomeSpace == {Outcome(t, s, p) : t \in T50Space, s \in ScarSpace, p \in InflSpace}

SmallSpace == {Outcome(Val(1), Val(6), Val(6)), Outcome(Val(14), 0, Val(6)),
               Outcome(None, Val(6), Val(14)), Outcome(Val(1), None, Val(14))}

\* every dict {treatment: outcomes} over some of the names, outcomes drawn from space
DictsOver(names, space) == UNION {[d -> space] : d \in SUBSET names}

Range(s) == {s[j] : j \in 1..Len(s)}

\* a run's CSV: the first n rows of one of two underlying courses; time_h counts rows
Course(c, j) == IF c = "flat" THEN Val(6) ELSE IF j % 2 = 1 THEN Val(14) ELSE Val(1)
Csv(c, n) == [col \in Columns |->
                [j \in 1..n |-> IF col = "time_h" THEN Val(j - 1) ELSE Course(c, j)]]
CsvSpace == {Csv(c, n) : c \in {"flat", "swing"}, n \in 0..MaxRows}
CsvLists == UNION {[1..n -> CsvSpace] : n \in 1..MaxCsvs}
Fractions == {[num |-> 1, den |-> 4], [num |-> 1, den |-> 2], [num |-> 3, den |-> 4],
              [num |-> 1, den |-> 1], [num |-> 2, den |-> 1]}

\* what extract_outcomes may return for one run: scar and peak inflammation are
\* always numbers, time_to_50pct_days is None when 50% closure was never reached
SimA == Outcome(Val(6), Val(6), Val(6))
SimB == Outcome(Val(14), Val(6), Val(6))
SimZ == Outcome(None, 0, 0)
SimOutcomes == {SimA, SimB, SimZ}

\* ------------------------------------------------------------- idle parts
Idle      == [fn |-> "none"]
EmptyDict == << >>
NoRet     == [mean_out |-> EmptyDict, std_out |-> EmptyDict, n_runs |-> 0, how |-> "none"]

\* exit codes of the simulation binary, and one finished process: its exit code,
\* whether metrics.csv exists afterwards, whether the file holds data rows, what
\* run_simulation returned and whether the replicate entered outcomes_list
ExitCodes == {0, 1}
NoProc    == [ran |-> FALSE, rc |-> 0, artifact |-> FALSE, rows |-> 0, ok |-> FALSE,
              recorded |-> FALSE]
Process(rc, artifact, rows, ok, recorded) ==
    [ran |-> TRUE, rc |-> rc, artifact |-> artifact, rows |-> rows, ok |-> ok,
     recorded |-> recorded]

SamplerIdle ==
    /\ ac_config = << >> /\ ac_i = 0 /\ outcomes_list = << >> /\ ac_status = "idle"
    /\ ac_ret = NoRet /\ n_invoked = 0 /\ sim_log = {} /\ proc = NoProc

MainIdle ==
    /\ pc = "idle" /\ baseline_mean = EmptyDict /\ n_base = 0 /\ singles = EmptyDict
    /\ t_idx = 0 /\ effects = EmptyDict /\ all_scored = << >> /\ selected = << >>
    /\ c_idx = 0 /\ combo_results = << >> /\ all_results = << >> /\ report = << >>
    /\ done_steps = {}

NoArgs == [min_runs |-> 0, max_runs |-> 0, cv_threshold |-> 0, top_k |-> 0]

\* ------------------------------------------------- calls of the library
PredictCalls ==
    {[fn |-> "predict_combo", done |-> FALSE, baseline |-> bl, singles |-> sg,
      combo |-> combo] :
        bl \in OutcomeSpace, sg \in DictsOver({"hbo", "npwt"}, OutcomeSpace),
        combo \in UNION {Range(combinations(<<"hbo", "npwt">>, r)) : r \in 0..2}}

SelectCalls ==
    {[fn |-> "select_combos", done |-> FALSE, baseline |-> bl, singles |-> sg,
      treatments |-> SubSeq(Factors, 1, n), top_k |-> top_k] :
        bl \in OutcomeSpace, sg \in DictsOver(Range(Factors), SmallSpace),
        n \in 2..Len(Factors), top_k \in 0..MaxTopK}

SynergyCalls ==
    {[fn |-> "compute_synergy", done |-> FALSE, observed |-> observed,
      predicted |-> predicted, baseline |-> bl] :
        observed \in OutcomeSpace, predicted \in OutcomeSpace, bl \in OutcomeSpace}

\* outcomes for composite_score: missing, zero, small and large components
ScoreSpace ==
    {Outcome(t, s, p) : t \in {None, 0, Val(1), Val(14)}, s \in {None, 0, Val(1), Val(6)},
                        p \in {0, Val(1), Val(6)}}

ScoreCalls ==
    {[fn |-> "composite_score", done |-> FALSE, outcomes |-> outcomes, baseline |-> bl] :
        outcomes \in ScoreSpace, bl \in ScoreSpace}

\* result lists for print_synergy_report: up to two evaluated combinations with
\* mean synergies on, around and between the verdict thresholds
SynergyMeans == {-Val(1), -Tenth(1), 0, Tenth(1), Tenth(2)}
ReportEntries ==
    {[config |-> c, synergy |-> [k \in {"mean"} |-> m]] :
        c \in Range(all_combos_of(Factors)), m \in SynergyMeans}
ReportCalls ==
    {[fn |-> "print_synergy_report", done |-> FALSE, combo_results |-> r] :
        r \in UNION {[1..n -> ReportEntries] : n \in 0..2}}

AggregateCalls ==
    {[fn |-> "aggregate_csvs", done |-> FALSE, loaded |-> loaded, frac |-> frac] :
        loaded \in CsvLists, frac \in Fractions}

CallPredict ==
    /\ call.fn = "predict_combo" /\ ~call.done
    /\ LET effects_ == fit_surrogate(call.baseline, call.singles)
       IN  call' = [fn |-> "predict_combo", done |-> TRUE, baseline |-> call.baseline,
                    singles |-> call.singles, effects |-> effects_, combo |-> call.combo,
                    ret |-> predict_combo(call.baseline, effects_, call.combo)]
    /\ UNCHANGED <<samplerVars, mainVars>>

CallSelect ==
    /\ call.fn = "select_combos" /\ ~call.done
    /\ LET effects_   == fit_surrogate(call.baseline, call.singles)
           all_combos == all_combos_of(call.treatments)
       IN  call' = [fn |-> "select_combos", done |-> TRUE, baseline |-> call.baseline,
                    effects |-> effects_, all_combos |-> all_combos, top_k |-> call.top_k,
                    ret |-> select_combos(call.baseline, effects_, all_combos, call.top_k)]
    /\ UNCHANGED <<samplerVars, mainVars>>

CallSynergy ==
    /\ call.fn = "compute_synergy" /\ ~call.done
    /\ call' = [fn |-> "compute_synergy", done |-> TRUE, observed |-> call.observed,
                predicted |-> call.predicted, baseline |-> call.baseline,
                ret |-> compute_synergy(call.observed, call.predicted, call.baseline)]
    /\ UNCHANGED <<samplerVars, mainVars>>

CallScore ==
    /\ call.fn = "composite_score" /\ ~call.done
    /\ call' = [fn |-> "composite_score", done |-> TRUE, outcomes |-> call.outcomes,
                baseline |-> call.baseline,
                ret |-> composite_score(call.outcomes, call.baseline)]
    /\ UNCHANGED <<samplerVars, mainVars>>

CallReport ==
    /\ call.fn = "print_synergy_report" /\ ~call.done
    /\ call' = [fn |-> "print_synergy_report", done |-> TRUE,
                combo_results |-> call.combo_results,
                ret |-> print_synergy_report(call.combo_results)]
    /\ UNCHANGED <<samplerVars, mainVars>>

CallAggregate ==
    /\ call.fn = "aggregate_csvs" /\ ~call.done
    /\ call' = [fn |-> "aggregate_csvs", done |-> TRUE, loaded |-> call.loaded,
                frac |-> call.frac, ret |-> aggregate_csvs(call.loaded, call.frac)]
    /\ UNCHANGED <<samplerVars, mainVars>>

CallsIdle ==
    /\ SamplerIdle /\ MainIdle
    /\ args = NoArgs /\ treatments = << >> /\ sim_space = {}

SurrogateInit ==
    /\ call \in PredictCalls \cup SelectCalls \cup SynergyCalls \cup ReportCalls
                \cup ScoreCalls
    /\ CallsIdle
SurrogateNext == CallPredict \/ CallSelect \/ CallSynergy \/ CallReport \/ CallScore
SpecSurrogate == SurrogateInit /\ [][SurrogateNext]_vars

AggregateInit == call \in AggregateCalls /\ CallsIdle
AggregateNext == CallAggregate
SpecAggregate == AggregateInit /\ [][AggregateNext]_vars

\* ------------------------------------------- adaptive_consensus, step by step
\* entering the function: the loop runs at all only when range(max_runs) is not empty
AcEnter_as_baseline(treatment_names) ==
    /\ ac_config' = << >>
    /\ ac_i' = 0
    /\ outcomes_list' = << >>
    /\ n_invoked' = 0
    /\ ac_ret' = NoRet
    /\ proc' = NoProc
    /\ ac_status' = IF loop_continues(0, args.max_runs) THEN "collecting" ELSE "exhausted"
AcEnter(treatment_names) ==
    /\ ac_config' = treatment_names
    /\ ac_i' = 0
    /\ outcomes_list' = << >>
    /\ n_invoked' = 0
    /\ ac_ret' = NoRet
    /\ proc' = NoProc
    /\ ac_status' = IF loop_continues(0, args.max_runs) THEN "collecting" ELSE "exhausted"

\* the loop moves on to the next i, or ends
AcAdvance == IF loop_continues(ac_i + 1, args.max_runs) THEN "collecting" ELSE "exhausted"

\* prepare_config: a helper script exits non-zero, run_script raises RuntimeError,
\* nothing catches it
AcPrepareRaises ==
    /\ ac_status = "collecting"
    /\ ac_status' = "raised"
    /\ pc' = "crashed"
    /\ UNCHANGED <<callVars, ac_config, ac_i, outcomes_list, ac_ret, n_invoked, sim_log,
                   proc, args, treatments, sim_space, baseline_mean, n_base, singles,
                   t_idx, effects, all_scored, selected, c_idx, combo_results,
                   all_results, report, done_steps>>

\* run_simulation returns None: no metrics.csv; "continue" goes to the next i
AcRunFails_retry ==
    /\ ac_status = "collecting"
    /\ \E rc \in ExitCodes, artifact \in BOOLEAN :
        /\ ~run_simulation(rc, artifact)
        /\ proc' = Process(rc, artifact, 0, FALSE, FALSE)
    /\ n_invoked' = n_invoked + 1
    /\ sim_log' = sim_log \cup {ac_config}
    /\ UNCHANGED <<callVars, mainVars, ac_config, ac_i, ac_status, outcomes_list, ac_ret>>
AcRunFails ==
    /\ ac_status = "collecting"
    /\ \E rc \in ExitCodes, artifact \in BOOLEAN :
        /\ ~run_simulation(rc, artifact)
        /\ proc' = Process(rc, artifact, 0, FALSE, FALSE)
    /\ n_invoked' = n_invoked + 1
    /\ sim_log' = sim_log \cup {ac_config}
    /\ ac_i' = ac_i + 1
    /\ ac_status' = AcAdvance
    /\ UNCHANGED <<callVars, mainVars, ac_config, outcomes_list, ac_ret>>

\* metrics.csv is there but holds no rows: extract_outcomes returns {}
AcRunEmpty ==
    /\ ac_status = "collecting"
    /\ \E rc \in ExitCodes, artifact \in BOOLEAN :
        /\ run_simulation(rc, artifact)
        /\ proc' = Process(rc, artifact, 0, TRUE, FALSE)
    /\ n_invoked' = n_invoked + 1
    /\ sim_log' = sim_log \cup {ac_config}
    /\ ac_i' = ac_i + 1
    /\ ac_status' = AcAdvance
    /\ UNCHANGED <<callVars, mainVars, ac_config, outcomes_list, ac_ret>>

\* a successful run: record it, then the early-stopping check
AcRunSucceeds ==
    /\ ac_status = "collecting"
    /\ \E rc \in ExitCodes, artifact \in BOOLEAN :
        /\ run_simulation(rc, artifact) /\ artifact
        /\ proc' = Process(rc, artifact, 1, TRUE, TRUE)
    /\ \E outcomes \in sim_space :
        LET list == Append(outcomes_list, outcomes)
        IN  /\ outcomes_list' = list
            /\ ac_status' = IF /\ may_stop(Len(list), args.min_runs)
                               /\ cv_below(_compute_cv(list), args.cv_threshold)
                            THEN "converged" ELSE AcAdvance
    /\ n_invoked' = n_invoked + 1
    /\ sim_log' = sim_log \cup {ac_config}
    /\ ac_i' = ac_i + 1
    /\ UNCHANGED <<callVars, mainVars, ac_config, ac_ret>>

\* after the loop
AcReturn ==
    /\ ac_status \in {"converged", "exhausted"}
    /\ ac_ret' = IF outcomes_list = << >>
                 THEN [mean_out |-> EmptyDict, std_out |-> EmptyDict, n_runs |-> 0,
                       how |-> ac_status]
                 ELSE [mean_out |-> _aggregate_outcomes(outcomes_list).mean_out,
                       std_out  |-> _aggregate_outcomes(outcomes_list).std_out,
                       n_runs   |-> Len(outcomes_list), how |-> ac_status]
    /\ ac_status' = "returned"
    /\ proc' = NoProc
    /\ UNCHANGED <<callVars, mainVars, ac_config, ac_i, outcomes_list, n_invoked, sim_log>>

AcNext == AcPrepareRaises \/ AcRunFails \/ AcRunEmpty \/ AcRunSucceeds \/ AcReturn

\* one adaptive_consensus call on its own, for every command line
MinRunsSpace   == 0..MaxRuns + 1
ThresholdSpace == {0, Tenth(1), Val(1), Val(2)}

SamplerInit ==
    /\ call = Idle
    /\ args \in [min_runs : MinRunsSpace, max_runs : 0..MaxRuns + 1,
                 cv_threshold : ThresholdSpace, top_k : {0}]
    /\ treatments = << >> /\ sim_space = SimOutcomes
    /\ pc = "standalone" /\ baseline_mean = EmptyDict /\ n_base = 0 /\ singles = EmptyDict
    /\ t_idx = 0 /\ effects = EmptyDict /\ all_scored = << >> /\ selected = << >>
    /\ c_idx = 0 /\ combo_results = << >> /\ all_results = << >> /\ report = << >>
    /\ done_steps = {}
    /\ ac_config = <<"hbo">> /\ ac_i = 0 /\ outcomes_list = << >> /\ ac_ret = NoRet
    /\ n_invoked = 0 /\ sim_log = {} /\ proc = NoProc
    /\ ac_status = IF loop_continues(0, args.max_runs) THEN "collecting" ELSE "exhausted"

SpecSampler == SamplerInit /\ [][AcNext]_vars

\* a step of the function's control flow: while it has not returned or raised,
\* the loop index advances or the status changes
AcStep ==
    /\ ac_status \in {"collecting", "converged", "exhausted"}
    /\ ac_status' \in {"collecting", "converged", "exhausted", "returned", "raised"}
    /\ ac_i' \in {ac_i, ac_i + 1}

\* the same call in a running interpreter: the function is sequential code and
\* every call it makes returns or raises, so while it has not returned or raised
\* its control flow moves on
SpecSamplerLive == SamplerInit /\ [][AcNext]_vars /\ WF_<<ac_i, ac_status>>(AcStep)

\* ----------------------------------------------------------------- main
\* the names that occur, in Python's string order
NameOrder == <<"all", "combination", "growth_factor", "hbo", "npwt", "zinc">>
NameRank(t) == CHOOSE j \in 1..Len(NameOrder) : NameOrder[j] = t

\* sorted(names)
RECURSIVE sorted_names(_)
sorted_names(names) ==
    IF names = << >> THEN << >>
    ELSE LET rest == sorted_names(SubSeq(names, 1, Len(names) - 1))
             x    == names[Len(names)]
             p    == Cardinality({j \in 1..Len(rest) : NameRank(rest[j]) <= NameRank(x)})
         IN  SubSeq(rest, 1, p) \o <<x>> \o SubSeq(rest, p + 1, Len(rest))

\* combo_label: "+".join(sorted(names)); the label is kept as the sorted tuple,
\* no name holding a "+"
combo_label(names) == sorted_names(names)

\* "for x in list": the loop at (1-based) position idx still has an element to visit
loop_over_short(idx, list) == idx < Len(list)
loop_over(idx, list) == idx <= Len(list)

\* phase 1 returns: keep the baseline or exit(1)
Phase1Return ==
    /\ pc = "phase1" /\ ac_status = "returned"
    /\ baseline_mean' = ac_ret.mean_out
    /\ n_base' = ac_ret.n_runs
    /\ done_steps' = done_steps \cup {"baseline"}
    /\ IF not_dict(ac_ret.mean_out)
       THEN /\ pc' = "aborted"
            /\ UNCHANGED all_results
       ELSE /\ pc' = "phase2"
            /\ all_results' = Append(all_results,
                    [config |-> << >>, type |-> "baseline", n_runs |-> ac_ret.n_runs,
                     outcomes |-> ac_ret.mean_out])
    /\ t_idx' = 1
    /\ ac_status' = "idle"
    /\ UNCHANGED <<callVars, ac_config, ac_i, outcomes_list, ac_ret, n_invoked, sim_log,
                   proc, args, treatments, sim_space, singles, effects, all_scored, selected,
                   c_idx, combo_results, report>>

\* phase 2: the next treatment enters adaptive_consensus
Phase2Start ==
    /\ pc = "phase2" /\ ac_status = "idle" /\ loop_over(t_idx, treatments)
    /\ AcEnter(<<treatments[t_idx]>>)
    /\ UNCHANGED <<callVars, mainVars, sim_log>>

\* phase 2: a treatment returns; without data it is skipped
Phase2Return ==
    /\ pc = "phase2" /\ ac_status = "returned"
    /\ IF not_dict(ac_ret.mean_out)
       THEN UNCHANGED <<singles, all_results>>
       ELSE /\ singles' = [t \in DOMAIN singles \cup {treatments[t_idx]} |->
                             IF t = treatments[t_idx] THEN ac_ret.mean_out ELSE singles[t]]
            /\ all_results' = Append(all_results,
                    [config |-> <<treatments[t_idx]>>, type |-> "single",
                     n_runs |-> ac_ret.n_runs, outcomes |-> ac_ret.mean_out])
    /\ t_idx' = t_idx + 1
    /\ ac_status' = "idle"
    /\ UNCHANGED <<callVars, ac_config, ac_i, outcomes_list, ac_ret, n_invoked, sim_log,
                   proc, args, treatments, sim_space, pc, baseline_mean, n_base, effects,
                   all_scored, selected, c_idx, combo_results, report, done_steps>>

\* after the loop over the treatments: exit(1) when no single has data
Phase2Abort ==
    /\ pc = "phase2" /\ ac_status = "idle" /\ ~loop_over(t_idx, treatments)
    /\ not_dict(singles)
    /\ pc' = "aborted"
    /\ done_steps' = done_steps \cup {"singles"}
    /\ UNCHANGED <<callVars, samplerVars, args, treatments, sim_space, baseline_mean,
                   n_base, singles, t_idx, effects, all_scored, selected, c_idx,
                   combo_results, all_results, report>>

\* phases 3 and 4: fit the surrogate, predict and rank every combo, take the top K
Phase3Fit ==
    /\ pc = "phase2" /\ ac_status = "idle" /\ ~loop_over(t_idx, treatments)
    /\ ~not_dict(singles)
    /\ LET fitted == fit_surrogate(baseline_mean, singles)
           scored == sort_by_score(score_all(baseline_mean, fitted,
                                             all_combos_of(treatments)))
           top_k  == IF args.top_k < Len(scored) THEN args.top_k ELSE Len(scored)
       IN  /\ effects' = fitted
           /\ all_scored' = scored
           /\ selected' = SliceTo(scored, top_k)
    /\ c_idx' = 1
    /\ pc' = "phase5"
    /\ done_steps' = done_steps \cup {"singles", "fit", "select"}
    /\ UNCHANGED <<callVars, samplerVars, args, treatments, sim_space, baseline_mean,
                   n_base, singles, t_idx, combo_results, all_results, report>>

\* phase 5: the next selected combo enters adaptive_consensus
Phase5Start ==
    /\ pc = "phase5" /\ ac_status = "idle" /\ loop_over(c_idx, selected)
    /\ AcEnter(selected[c_idx].combo)
    /\ UNCHANGED <<callVars, mainVars, sim_log>>

\* phase 5: a combo returns; without data it is skipped, else its synergy is computed
Phase5Return ==
    /\ pc = "phase5" /\ ac_status = "returned"
    /\ IF not_dict(ac_ret.mean_out)
       THEN UNCHANGED <<combo_results, all_results>>
       ELSE LET predicted == selected[c_idx].predicted
                synergy   == compute_synergy(ac_ret.mean_out, predicted, baseline_mean)
                result    == [config |-> combo_label(selected[c_idx].combo),
                              type |-> "combo", n_runs |-> ac_ret.n_runs,
                              outcomes |-> ac_ret.mean_out, synergy |-> synergy,
                              predicted |-> predicted]
            IN  /\ combo_results' = Append(combo_results, result)
                /\ all_results' = Append(all_results, result)
    /\ c_idx' = c_idx + 1
    /\ ac_status' = "idle"
    /\ UNCHANGED <<callVars, ac_config, ac_i, outcomes_list, ac_ret, n_invoked, sim_log,
                   proc, args, treatments, sim_space, pc, baseline_mean, n_base, singles, t_idx,
                   effects, all_scored, selected, report, done_steps>>

\* phase 6: the synergy report, highest mean synergy first
Phase6Report ==
    /\ pc = "phase5" /\ ac_status = "idle" /\ ~loop_over(c_idx, selected)
    /\ report' = print_synergy_report(combo_results)
    /\ pc' = "done"
    /\ done_steps' = done_steps \cup {"report"}
    /\ UNCHANGED <<callVars, samplerVars, args, treatments, sim_space, baseline_mean,
                   n_base, singles, t_idx, effects, all_scored, selected, c_idx,
                   combo_results, all_results>>

MainNext == Phase1Return \/ Phase2Start \/ Phase2Return \/ Phase2Abort \/ Phase3Fit
            \/ Phase5Start \/ Phase5Return \/ Phase6Report

\* the command lines and treatment lists of the sessions explored
SessionArgs ==
    [min_runs : {1}, max_runs : {2}, cv_threshold : {Tenth(1), Val(2)}, top_k : {1, 2}]
SessionTreatments == {SubSeq(Factors, 1, n) : n \in 0..Len(Factors)}

Init ==
    /\ call = Idle
    /\ args \in SessionArgs
    /\ treatments \in SessionTreatments
    /\ sim_space = {SimA, SimB}
    /\ pc = "phase1" /\ baseline_mean = EmptyDict /\ n_base = 0 /\ singles = EmptyDict
    /\ t_idx = 0 /\ effects = EmptyDict /\ all_scored = << >> /\ selected = << >>
    /\ c_idx = 0 /\ combo_results = << >> /\ all_results = << >> /\ report = << >>
    /\ done_steps = {}
    /\ ac_config = << >> /\ ac_i = 0 /\ outcomes_list = << >> /\ ac_ret = NoRet
    /\ n_invoked = 0 /\ sim_log = {} /\ proc = NoProc
    /\ ac_status = IF loop_continues(0, args.max_runs) THEN "collecting" ELSE "exhausted"

Next == AcNext \/ MainNext
Spec == Init /\ [][Next]_vars

\* ------------------------------------- treatment parsing and enumeration
\* available_treatments(): the presets of the treatments directory, sorted
available_treatments == <<"combination">> \o Factors

\* [t for t in all_treatments if t != "combination"]
all_treatments == SelectSeq(available_treatments, LAMBDA t : t # "combination")

\* str.strip()
strip(t) == IF t = " hbo" THEN "hbo" ELSE t

\* main: --treatments, already split at the commas.  "all" stands for the
\* available treatments; otherwise the names are stripped, "combination" is left
\* out and an unknown name ends the session (ok is FALSE)
parse_treatments(raw) ==
    IF raw = <<"all">> THEN [ok |-> TRUE, treatments |-> all_treatments]
    ELSE LET stripped == [j \in 1..Len(raw) |-> strip(raw[j])]
             named    == SelectSeq(stripped, LAMBDA t : t # "combination")
         IN  [ok |-> \A j \in 1..Len(named) : named[j] \in Range(all_treatments),
              treatments |-> named]

\* the --treatments values tried: one to three comma-separated names
RawNames == {"all", "combination", "growth_factor", "hbo", " hbo", "npwt", "zinc"}
RawLists == UNION {[1..n -> RawNames] : n \in 1..Len(Factors)}

EnumerateCalls == {[fn |-> "enumerate", done |-> FALSE, raw |-> raw] : raw \in RawLists}

\* main up to the enumeration of the candidates, with the label of each
CallEnumerate ==
    /\ call.fn = "enumerate" /\ ~call.done
    /\ LET parsed     == parse_treatments(call.raw)
           all_combos == IF parsed.ok THEN all_combos_of(parsed.treatments) ELSE << >>
       IN  call' = [fn |-> "enumerate", done |-> TRUE, raw |-> call.raw,
                    ok |-> parsed.ok, treatments |-> parsed.treatments,
                    all_combos |-> all_combos,
                    labels |-> [j \in 1..Len(all_combos) |-> combo_label(all_combos[j])]]
    /\ UNCHANGED <<samplerVars, mainVars>>

EnumerateInit == call \in EnumerateCalls /\ CallsIdle
EnumerateNext == CallEnumerate
SpecEnumerate == EnumerateInit /\ [][EnumerateNext]_vars

\* ------------------------------------- replicate loops and the file system
\* A path is the tuple of its components below the repository root.  The file
\* system maps every existing path to 0 for a directory and, for a file, to the
\* number of the simulation invocation that wrote it (StaleRun: an earlier
\* session).
StaleRun == MaxReplicates + 2

OutputDir   == <<"output">>
SimDir      == <<"output", "skibidy">>
MetricsPath == <<"output", "skibidy", "metrics.csv">>

Loops == {"adaptive_consensus", "run_consensus", "batch", "sweep"}

\* where each loop keeps the copies of its successful runs
RawDirOf(loop) ==
    IF loop = "adaptive_consensus" THEN <<"output", "adaptive_study", "raw">>
    ELSE IF loop = "run_consensus" THEN <<"output", "scenarios", "scenario", "raw">>
    ELSE IF loop = "batch" THEN <<"batch", "results", "consensus", "raw">>
    ELSE <<"batch", "results", "sweep", "raw">>

\* what the loop's run_simulation removes before it starts the binary:
\* treatment_study.run_simulation the simulation's own directory, lib.run_simulation
\* the whole output directory
CleanRootOf(loop) == IF loop = "adaptive_consensus" THEN SimDir ELSE OutputDir

RunNames == <<"run000.csv", "run001.csv", "run002.csv", "run003.csv", "run004.csv">>

\* f"{...}_run{i:03d}.csv" in the loop's raw directory (i counts from 0)
DstOf(loop, i) == RawDirOf(loop) \o <<RunNames[i + 1]>>

IsPrefix(p, q) == Len(p) <= Len(q) /\ SubSeq(q, 1, Len(p)) = p
ParentOf(p)    == SubSeq(p, 1, Len(p) - 1)

\* shutil.rmtree(root): root and everything below it
rmtree(fs, root) == [p \in {q \in DOMAIN fs : ~IsPrefix(root, q)} |-> fs[p]]

\* os.makedirs(dir, exist_ok=True): dir and every missing ancestor
makedirs(fs, dir) ==
    [p \in DOMAIN fs \cup {SubSeq(dir, 1, n) : n \in 1..Len(dir)} |->
        IF p \in DOMAIN fs THEN fs[p] ELSE 0]

\* a file written at path (its directory made first), holding content
write_file(fs, path, content) ==
    LET made == makedirs(fs, ParentOf(path))
    IN  [p \in DOMAIN made \cup {path} |-> IF p = path THEN content ELSE made[p]]

\* shutil.copy2(src, dst); dst's directory has to exist
copy2(fs, src, dst) ==
    [p \in DOMAIN fs \cup {dst} |-> IF p = dst THEN fs[src] ELSE fs[p]]

\* the file system when the loop starts: its raw directory made, with or
\* without the output of an earlier session
StartFs(loop, stale) ==
    makedirs(IF stale THEN write_file(<< >>, MetricsPath, StaleRun) ELSE << >>,
             RawDirOf(loop))

ReplicateCalls ==
    {[fn |-> "replicates", loop |-> loop, n_runs |-> n, i |-> 0,
      fs |-> StartFs(loop, stale), csv_paths |-> << >>, status |-> "running"] :
        loop \in Loops, n \in 1..MaxReplicates, stale \in BOOLEAN}

\* the file system after run_simulation's clean-up
Cleaned == rmtree(call.fs, CleanRootOf(call.loop))

\* the file system after a simulation that wrote its metrics.csv
Simulated == write_file(Cleaned, MetricsPath, call.i + 1)

\* an iteration whose simulation leaves no metrics.csv: skipped
RepFails ==
    /\ call.fn = "replicates" /\ call.status = "running" /\ call.i < call.n_runs
    /\ call' = [call EXCEPT !.i = call.i + 1, !.fs = Cleaned]
    /\ UNCHANGED <<samplerVars, mainVars>>

\* an iteration whose metrics.csv is copied to the raw directory and recorded
RepRecorded ==
    /\ call.fn = "replicates" /\ call.status = "running" /\ call.i < call.n_runs
    /\ ParentOf(DstOf(call.loop, call.i)) \in DOMAIN Simulated
    /\ call' = [call EXCEPT
                    !.i = call.i + 1,
                    !.fs = copy2(Simulated, MetricsPath, DstOf(call.loop, call.i)),
                    !.csv_paths = Append(call.csv_paths,
                                         [path |-> DstOf(call.loop, call.i),
                                          run |-> call.i + 1])]
    /\ UNCHANGED <<samplerVars, mainVars>>

\* an iteration whose copy finds no raw directory: shutil.copy2 raises
\* FileNotFoundError, which nothing catches
RepCopyRaises ==
    /\ call.fn = "replicates" /\ call.status = "running" /\ call.i < call.n_runs
    /\ ParentOf(DstOf(call.loop, call.i)) \notin DOMAIN Simulated
    /\ call' = [call EXCEPT !.fs = Simulated, !.status = "raised"]
    /\ UNCHANGED <<samplerVars, mainVars>>

\* after the loop: the recorded paths are aggregated or returned
RepAggregate ==
    /\ call.fn = "replicates" /\ call.status = "running" /\ call.i = call.n_runs
    /\ call' = [call EXCEPT !.status = "aggregated"]
    /\ UNCHANGED <<samplerVars, mainVars>>

ReplicatesInit == call \in ReplicateCalls /\ CallsIdle
ReplicatesNext == RepFails \/ RepRecorded \/ RepCopyRaises \/ RepAggregate
SpecReplicates == ReplicatesInit /\ [][ReplicatesNext]_vars

\* ------------------------------------------------------ outcome extraction
MaxMetricRows == 3      \* most rows of one metrics.csv handed to an extractor

NaN == -2000000         \* float("nan"): extract_outcome's "not available / never reached"

Fifty == Val(50)        \* "closure >= 50"

\* the value the comparison "v >= threshold" lets through
reaches_strict(v, threshold) == v > threshold
reaches(v, threshold) == v >= threshold

\* for ... in series order: the index of the first sample that reaches the
\* threshold, 0 when the loop runs out (the for-else / fall-through branch)
RECURSIVE first_reaching(_, _, _)
first_reaching(values, threshold, j) ==
    IF j > Len(values) THEN 0
    ELSE IF reaches(values[j], threshold) THEN j
    ELSE first_reaching(values, threshold, j + 1)

\* the integer nearest to num/den, ties to even
NearestInt(num, den) ==
    LET q == num \div den
        r == num % den
    IN  IF 2 * r < den THEN q
        ELSE IF 2 * r > den THEN q + 1
        ELSE IF q % 2 = 0 THEN q ELSE q + 1

\* round(step * 0.1 / 24, 1): simulation steps to days, one decimal
round_days(step) == Tenth(NearestInt(step, 24))

\* row.get(column, 0) of a csv.DictReader row, then float()
RowGet(row, column) == IF column \in DOMAIN row THEN row[column] ELSE 0

\* peak_infl = 0; for row in rows: if infl > peak_infl: peak_infl = infl
RECURSIVE peak_of(_, _)
peak_of(rows, column) ==
    IF rows = << >> THEN 0
    ELSE LET peak == peak_of(SubSeq(rows, 1, Len(rows) - 1), column)
             v    == RowGet(rows[Len(rows)], column)
         IN  IF v > peak THEN v ELSE peak

\* treatment_study.extract_outcomes, the tracked keys of its result; rows is the
\* list csv.DictReader delivers, {} when it is empty
extract_outcomes(rows) ==
    IF rows = << >> THEN EmptyDict
    ELSE LET last    == rows[Len(rows)]
             closure == [j \in 1..Len(rows) |-> RowGet(rows[j], "wound_closure_pct")]
             first   == first_reaching(closure, Fifty, 1)
         IN  [key \in KeySet |->
                IF key = "scar_magnitude" THEN RowGet(last, "scar_magnitude")
                ELSE IF key = "peak_inflammation" THEN peak_of(rows, "mean_infl_wound")
                ELSE IF first = 0 THEN None
                ELSE round_days(RowGet(rows[first], "step"))]

\* data.get("time_h", list(range(len(values))))
TimesOf(data, values) ==
    IF "time_h" \in DOMAIN data THEN data["time_h"] ELSE [j \in 1..Len(values) |-> Val(j - 1)]

\* batch/lib.extract_outcome for the measures final, peak and time_to_N; a
\* measure is its name and, for time_to_N, the threshold float(N)
extract_outcome(data, column, measure) ==
    LET values == IF column \in DOMAIN data THEN data[column] ELSE << >>
    IN  IF values = << >> THEN NaN
        ELSE IF measure.name = "final" THEN values[Len(values)]
        ELSE IF measure.name = "peak" THEN MaxOf(Range(values))
        ELSE LET times == TimesOf(data, values)
                 first == first_reaching(values, measure.N, 1)
             IN  IF first = 0 THEN NaN ELSE times[first]

\* the metrics files the extractors are tried on: up to MaxMetricRows rows, a
\* row every 100 steps from step 50, and any of the metric columns absent from
\* the file's schema
ClosureSpace == {Val(6), Fifty, Val(96)}
MetricSpace  == {0, Val(6)}
StepOf(j)    == 50 + 100 * (j - 1)
MetricColumns == {"wound_closure_pct", "scar_magnitude", "mean_infl_wound"}

FullRows(n) ==
    {[j \in 1..n |-> [c \in MetricColumns \cup {"step"} |->
                        IF c = "step" THEN StepOf(j)
                        ELSE IF c = "wound_closure_pct" THEN cl[j]
                        ELSE IF c = "scar_magnitude" THEN sc[j] ELSE inf[j]]] :
        cl \in [1..n -> ClosureSpace], sc \in [1..n -> MetricSpace],
        inf \in [1..n -> MetricSpace]}

\* the rows of a file that lacks the columns in missing
Without(rows, missing) ==
    [j \in 1..Len(rows) |-> [c \in (DOMAIN rows[j]) \ missing |-> rows[j][c]]]

MetricFiles ==
    {Without(rows, missing) :
        rows \in UNION {FullRows(n) : n \in 0..MaxMetricRows},
        missing \in SUBSET {"wound_closure_pct", "scar_magnitude"}}

\* the time series extract_outcome is tried on: the first n samples of a
\* wound_closure_pct column, with or without the time_h column, or no such column
SeriesData ==
    {[c \in cols |-> IF c = "time_h" THEN [j \in 1..Len(v) |-> Val(2 * j)] ELSE v] :
        v \in UNION {[1..n -> ClosureSpace] : n \in 0..MaxMetricRows},
        cols \in {{"time_h", "wound_closure_pct"}, {"wound_closure_pct"}, {"time_h"}}}

Measures == {[name |-> "final", N |-> 0], [name |-> "peak", N |-> 0],
             [name |-> "time_to", N |-> Fifty], [name |-> "time_to", N |-> Val(96)]}

ExtractOutcomesCalls ==
    {[fn |-> "extract_outcomes", done |-> FALSE, rows |-> rows] : rows \in MetricFiles}

ExtractOutcomeCalls ==
    {[fn |-> "extract_outcome", done |-> FALSE, data |-> data,
      column |-> "wound_closure_pct", measure |-> measure] :
        data \in SeriesData, measure \in Measures}

CallExtractOutcomes ==
    /\ call.fn = "extract_outcomes" /\ ~call.done
    /\ call' = [fn |-> "extract_outcomes", done |-> TRUE, rows |-> call.rows,
                ret |-> extract_outcomes(call.rows)]
    /\ UNCHANGED <<samplerVars, mainVars>>

CallExtractOutcome ==
    /\ call.fn = "extract_outcome" /\ ~call.done
    /\ call' = [fn |-> "extract_outcome", done |-> TRUE, data |-> call.data,
                column |-> call.column, measure |-> call.measure,
                ret |-> extract_outcome(call.data, call.column, call.measure)]
    /\ UNCHANGED <<samplerVars, mainVars>>

ExtractInit == call \in ExtractOutcomesCalls \cup ExtractOutcomeCalls /\ CallsIdle
ExtractNext == CallExtractOutcomes \/ CallExtractOutcome
SpecExtract == ExtractInit /\ [][ExtractNext]_vars

\* =============================================================== properties

\* C1: adaptive_consensus calls run_simulation at most max_runs times, failed
\* and successful calls counted together.
C1_AtMostMaxRuns == n_invoked <= args.max_runs

\* C1 witness: a call that used all of its max_runs >= 2 invocations, some failed
\* and some successful.
C1_Witness ==
    /\ ac_status = "returned" /\ ac_ret.how = "exhausted"
    /\ args.max_runs >= 2 /\ n_invoked = args.max_runs
    /\ Len(outcomes_list) >= 1 /\ Len(outcomes_list) < n_invoked

\* C2: adaptive_consensus never takes the converged break with fewer than
\* min_runs successful replicates collected.
C2_NoConvergenceBelowMinRuns ==
    /\ ac_status = "converged" => Len(outcomes_list) >= args.min_runs
    /\ ac_ret.how = "converged" => ac_ret.n_runs >= args.min_runs

\* C2 witness: converged with exactly min_runs >= 2 successes, before the loop
\* ran out, on outcomes that differ (a CV above 0 and below the threshold).
C2_Witness ==
    /\ ac_status = "converged" /\ args.min_runs >= 2
    /\ Len(outcomes_list) = args.min_runs
    /\ ac_i < args.max_runs
    /\ outcomes_list[1] # outcomes_list[2]

HasComboRun == \E c \in sim_log : Len(c) >= 2

\* C10: once the baseline has returned no data the session is aborted and nothing
\* but the baseline was ever simulated; once the loop over the treatments has
\* ended with no single holding data the session is aborted, no surrogate was
\* fitted, nothing selected and no combination simulated.
C10_AbortsWithoutData ==
    /\ ("baseline" \in done_steps /\ n_base = 0) =>
          /\ pc = "aborted"
          /\ sim_log \subseteq {<< >>}
          /\ done_steps = {"baseline"}
    /\ ("singles" \in done_steps /\ singles = EmptyDict) =>
          /\ pc = "aborted"
          /\ ~HasComboRun
          /\ done_steps \cap {"fit", "select", "report"} = {}
          /\ effects = EmptyDict /\ selected = << >> /\ all_scored = << >>

\* C10 witness: the baseline has data, each of at least two treatments was
\* simulated and none yielded data: the session is aborted.
C10_Witness ==
    /\ pc = "aborted" /\ "singles" \in done_steps /\ n_base > 0
    /\ Len(treatments) >= 2
    /\ \A j \in 1..Len(treatments) : <<treatments[j]>> \in sim_log

IsPredict == call.fn = "predict_combo" /\ call.done
IsSelect  == call.fn = "select_combos" /\ call.done
IsSynergy == call.fn = "compute_synergy" /\ call.done

\* C3 (as claimed): predict_combo on the empty subset returns the baseline
\* outcome itself on every tracked key, a missing (None) value included.
C3_EmptySubsetIsBaseline ==
    (IsPredict /\ call.combo = << >>) =>
        \A key \in KeySet : call.ret[key] = Get(call.baseline, key)

\* C4 (as claimed): the prediction for the single factor f equals singles[f]
\* on every tracked key, missing values included.
C4_SingleRoundTrip ==
    (IsPredict /\ Len(call.combo) = 1 /\ call.combo[1] \in DOMAIN call.singles) =>
        \A key \in KeySet : call.ret[key] = Get(call.singles[call.combo[1]], key)

\* C4 (amended): on a key whose baseline value is present, the prediction for
\* the single factor f equals singles[f][key] when that value is present and the
\* subtraction t - b is exact (no rounding), and equals the baseline value when
\* singles[f][key] is missing (the fitted delta is 0).
C4_SingleRoundTripWhenExact ==
    (IsPredict /\ Len(call.combo) = 1 /\ call.combo[1] \in DOMAIN call.singles) =>
        \A key \in KeySet :
            LET b == Get(call.baseline, key)
                t == Get(call.singles[call.combo[1]], key)
            IN  /\ (b # None /\ t # None /\ Fl(t - b) = t - b) => call.ret[key] = t
                /\ (b # None /\ t = None) => call.ret[key] = b

\* C4 witness: a single-factor prediction with a key present on both sides whose
\* difference is exact and not zero, and a key missing from the factor's outcome
\* whose baseline value is not zero.
C4_Witness ==
    /\ IsPredict /\ Len(call.combo) = 1 /\ call.combo[1] \in DOMAIN call.singles
    /\ LET b == call.baseline
           t == call.singles[call.combo[1]]
       IN  /\ b["peak_inflammation"] # t["peak_inflammation"]
           /\ call.ret["peak_inflammation"] = t["peak_inflammation"]
           /\ b["scar_magnitude"] = Val(6) /\ t["scar_magnitude"] = None
           /\ call.ret["scar_magnitude"] = Val(6)

\* r is the floating-point value nearest to d / b  (b > 0)
NearestQuotient(r, d, b) ==
    /\ Fl(r) = r
    /\ 2 * Abs(r * b - d * QInv) <= b * Ulp(Abs(r))

\* C5: for every tracked key compute_synergy returns (predicted - observed) /
\* |baseline[key]| when the three values are present and the baseline value is
\* non-trivial, and 0 otherwise; with observed = predicted every per-key synergy
\* and the mean synergy are 0.
C5_SynergyFormula ==
    IsSynergy =>
        /\ \A key \in KeySet :
            LET obs  == Get(call.observed, key)
                pred == Get(call.predicted, key)
                base == Get(call.baseline, key)
            IN  IF obs # None /\ pred # None /\ base # None /\ Abs(base) > Eps12
                THEN NearestQuotient(call.ret[key], Fl(pred - obs), Abs(base))
                ELSE call.ret[key] = 0
        /\ call.observed = call.predicted =>
               \A key \in KeySet \cup {"mean"} : call.ret[key] = 0

\* C5 witness: one key with a non-zero synergy, one key whose baseline value is
\* trivial (0) and one whose observed value is missing.
C5_Witness ==
    /\ IsSynergy
    /\ call.ret["peak_inflammation"] > 0
    /\ call.baseline["scar_magnitude"] = 0
    /\ call.observed["scar_magnitude"] # None /\ call.predicted["scar_magnitude"] # None
    /\ call.observed["scar_magnitude"] # call.predicted["scar_magnitude"]
    /\ call.observed["time_to_50pct_days"] = None
    /\ call.baseline["time_to_50pct_days"] # None

\* position of candidate i of the scored list in ascending score order, ties in
\* generation order
RankOf(scored, i) ==
    1 + Cardinality({h \in 1..Len(scored) :
                        \/ scored[h].score < scored[i].score
                        \/ (scored[h].score = scored[i].score /\ h < i)})

\* C6: the selection is the first min(top_k, n) candidates in ascending order of
\* composite score, candidates of equal score in generation order.
C6_SelectionOrdered ==
    IsSelect =>
        LET scored == score_all(call.baseline, call.effects, call.all_combos)
            n      == Len(call.all_combos)
            k      == IF call.top_k < n THEN call.top_k ELSE n
        IN  /\ Len(call.ret) = k
            /\ \A j \in 1..k : \E i \in 1..n : call.ret[j] = scored[i] /\ RankOf(scored, i) = j

\* C6 witness: a selection that cuts the list (top_k < n), reorders it, and
\* holds both a tie and a strict step.
C6_Witness ==
    /\ IsSelect
    /\ call.top_k < Len(call.all_combos) /\ Len(call.ret) = 3
    /\ call.ret[1].combo # call.all_combos[1]
    /\ call.ret[1].score = call.ret[2].score
    /\ call.ret[2].score < call.ret[3].score

IsAggregate == call.fn = "aggregate_csvs" /\ call.done

\* the runs aggregate_csvs works on: the loaded files that hold at least one row
RunsOf(loaded) == SelectSeq(loaded, LAMBDA d : RowsOf(d) > 0)

\* C7 (as claimed): for identical replicate series the std series is zero at
\* every timestep and the mean series equals the input series, for every column.
C7_IdenticalReplicates ==
    (/\ IsAggregate
     /\ RowsOf(call.loaded[1]) > 0
     /\ \A j \in 1..Len(call.loaded) : call.loaded[j] = call.loaded[1]) =>
        \A col \in Columns :
            /\ call.ret.mean_data[col] = call.loaded[1][col]
            /\ \A i \in 1..RowsOf(call.loaded[1]) : call.ret.std_data[col][i] = 0

\* m is the element at index len // 2 of the sorted lengths
IsUpperMedian(m, lengths) ==
    /\ \E j \in 1..Len(lengths) : lengths[j] = m
    /\ Cardinality({j \in 1..Len(lengths) : lengths[j] < m}) <= Len(lengths) \div 2
    /\ Cardinality({j \in 1..Len(lengths) : lengths[j] <= m}) > Len(lengths) \div 2

TwoRunsQuarter ==
    /\ IsAggregate /\ Len(call.loaded) = 2
    /\ RowsOf(call.loaded[1]) > 0 /\ RowsOf(call.loaded[2]) > 0
    /\ \E j \in 1..2 : RowsOf(call.loaded[j]) = 4 * RowsOf(call.loaded[3 - j])
    /\ call.ret.n_dropped = 0

ShortRows == -MaxOf({-RowsOf(call.loaded[j]) : j \in 1..2})
LongRows  == MaxOf({RowsOf(call.loaded[j]) : j \in 1..2})

\* C9 (as claimed): two runs of lengths L and L/4 that both qualify are both kept
\* and the consensus has L/4 timesteps.
C9_TruncatesAtShorter ==
    TwoRunsQuarter =>
        /\ Len(call.ret.kept) = 2
        /\ \A col \in Columns : Len(call.ret.mean_data[col]) = ShortRows

\* C9 (amended): two runs of lengths L and L/4 that both qualify are both kept and
\* the consensus has L timesteps: beyond row L/4 the long run is the only
\* contributor, the mean is its own sample and the std is 0.
C9_ExtendsToLonger ==
    TwoRunsQuarter =>
        /\ Len(call.ret.kept) = 2
        /\ \A col \in Columns :
            /\ Len(call.ret.mean_data[col]) = LongRows
            /\ Len(call.ret.std_data[col]) = LongRows
            /\ \A i \in ShortRows + 1..LongRows, j \in 1..2 :
                 RowsOf(call.loaded[j]) = LongRows =>
                    /\ call.ret.mean_data[col][i] = call.loaded[j][col][i]
                    /\ call.ret.std_data[col][i] = 0

\* C9 witness: runs of 4 rows and 1 row, both kept, that differ in their first row
C9_Witness ==
    /\ TwoRunsQuarter /\ Len(call.ret.kept) = 2
    /\ call.loaded[1]["wound_closure_pct"][1] # call.loaded[2]["wound_closure_pct"][1]
    /\ Len(call.ret.mean_data["wound_closure_pct"]) = 4

\* the session ended without a report
SessionEnded == pc \in {"aborted", "crashed"}

\* C11 (as claimed): a session ends without its report only when the baseline
\* or every single-factor Configuration yielded no data; with baseline data and
\* at least one single holding data no failure of a replicate, its
\* configuration-preparation step included, stops the session.
C11_OnlyTotalFailureAborts ==
    SessionEnded => (n_base = 0 \/ singles = EmptyDict)

\* adaptive_consensus has returned and none of its replicates succeeded
ReturnedNoData == ac_status = "returned" /\ outcomes_list = << >>

\* C12: a Configuration whose replicates all failed is returned as no data
\* (empty mean and std outcomes, 0 runs), and main then adds nothing for it: no
\* entry in singles (what the effects are fitted from), none in the result
\* rows, none in the synergy results.  Every entry that does exist rests on at
\* least one run, and effects and report hold nothing beyond singles and the
\* synergy results.
C12_NoDataExcluded ==
    /\ [](ReturnedNoData =>
            /\ ac_ret.mean_out = EmptyDict /\ ac_ret.std_out = EmptyDict
            /\ ac_ret.n_runs = 0)
    /\ [][ReturnedNoData =>
            /\ singles' = singles
            /\ all_results' = all_results
            /\ combo_results' = combo_results]_vars
    /\ [](/\ DOMAIN effects \subseteq DOMAIN singles
          /\ \A t \in DOMAIN singles : singles[t] # EmptyDict
          /\ \A j \in 1..Len(all_results) :
                all_results[j].n_runs > 0 /\ all_results[j].outcomes # EmptyDict
          /\ \A j \in 1..Len(combo_results) : combo_results[j].n_runs > 0
          /\ Len(report) <= Len(combo_results))

\* C12 witness: the session is done; one treatment was simulated max_runs times
\* to no avail and has no entry in singles, effects or the result rows, while
\* another treatment and a combination have theirs.
C12_Witness ==
    /\ pc = "done" /\ Len(combo_results) >= 1
    /\ \E t \in Range(treatments) :
        /\ <<t>> \in sim_log
        /\ t \notin DOMAIN singles /\ t \notin DOMAIN effects
        /\ \A j \in 1..Len(all_results) : all_results[j].config # <<t>>
    /\ DOMAIN singles # {}

\* C13 (as claimed): a replicate is recorded as successful exactly when
\* metrics.csv is present after the invocation, whatever the exit code.
C13_RecordedIffArtifact ==
    proc.ran => (proc.recorded <=> proc.artifact)

\* C13 (amended): run_simulation signals success exactly when metrics.csv is
\* present after the invocation, whatever the exit code, and the replicate is
\* recorded as successful exactly when the file is present and holds at least
\* one data row; a file without rows is skipped like a failed run.
C13_RecordedIffArtifactWithRows ==
    proc.ran =>
        /\ proc.ok <=> proc.artifact
        /\ proc.recorded <=> (proc.artifact /\ proc.rows > 0)
        /\ proc.recorded => outcomes_list # << >>

\* C13 witness: of two invocations one failed and the other, exiting non-zero
\* with metrics.csv present, was recorded as the one success.
C13_Witness ==
    /\ proc.ran /\ proc.rc # 0 /\ proc.artifact /\ proc.recorded
    /\ n_invoked = 2 /\ Len(outcomes_list) = 1

IsExtractOutcomes == call.fn = "extract_outcomes" /\ call.done
IsExtractOutcome  == call.fn = "extract_outcome" /\ call.done

\* the samples of a series that are at or above the threshold
ReachedAt(values, threshold) == {j \in 1..Len(values) : values[j] >= threshold}

\* the least element of a non-empty set of indices
MinOf(S) == CHOOSE x \in S : \A y \in S : x <= y

C15_AbsentMetricNotAvailable ==
    (IsExtractOutcomes /\ call.rows # << >>
        /\ "scar_magnitude" \notin DOMAIN call.rows[1]) =>
            /\ call.ret["scar_magnitude"] = None
            /\ call.ret["scar_magnitude"] # 0

IsReport == call.fn = "print_synergy_report" /\ call.done

\* C16: the mean synergy is the unweighted average of the per-key synergies of
\* the tracked keys (the float nearest to their float sum divided by their
\* number); the report holds exactly one line per evaluated combination, and a
\* line's verdict is SYNERGISTIC iff the mean synergy is > 0.10, ANTAGONISTIC
\* iff it is < -0.10 and additive otherwise, +0.10 and -0.10 included.
C16_MeanAndVerdict ==
    /\ IsSynergy =>
          LET S == FSum([j \in 1..Len(SCORE_KEYS) |-> call.ret[SCORE_KEYS[j]]])
              m == call.ret["mean"]
              n == Len(SCORE_KEYS)
          IN  Fl(m) = m /\ 2 * Abs(n * m - S) <= n * Ulp(Abs(m))
    /\ IsReport =>
          LET results == call.combo_results
              lines   == call.ret
          IN  /\ Len(lines) = Len(results)
              /\ \A j \in 1..Len(results) :
                    Cardinality({i \in 1..Len(lines) :
                        /\ lines[i].config = results[j].config
                        /\ lines[i].score = -results[j].synergy["mean"]})
                    = Cardinality({h \in 1..Len(results) :
                        /\ results[h].config = results[j].config
                        /\ results[h].synergy["mean"] = results[j].synergy["mean"]})
              /\ \A i \in 1..Len(lines) :
                    LET syn == -lines[i].score
                    IN  /\ lines[i].verdict \in {"SYNERGISTIC", "ANTAGONISTIC", "additive"}
                        /\ lines[i].verdict = "SYNERGISTIC" <=> syn > Tenth(1)
                        /\ lines[i].verdict = "ANTAGONISTIC" <=> syn < -Tenth(1)

\* C16 witness: a report of two combinations, one with a mean synergy of exactly
\* +0.10 (additive) and one above it (synergistic).
C16_Witness ==
    /\ IsReport /\ Len(call.ret) = 2
    /\ call.ret[1].score = -Tenth(2) /\ call.ret[1].verdict = "SYNERGISTIC"
    /\ call.ret[2].score = -Tenth(1) /\ call.ret[2].verdict = "additive"
    /\ Tenth(2) > Tenth(1)

\* the configurations simulated so far that have exactly n factors
RunsOfSize(n) == {c \in sim_log : Len(c) = n}

\* C17: the surrogate is fitted only once the adaptive sampler of every
\* single-factor Configuration has been entered and has returned; no combination
\* is simulated before the fit and the selection are complete; and the steps
\* occur in the order baseline, singles, fit, selection, combinations, report.
C17_PhaseOrder ==
    /\ [][effects' # effects =>
            /\ ac_status = "idle" /\ ac_status' = "idle"
            /\ t_idx = Len(treatments) + 1
            /\ \A j \in 1..Len(treatments) : <<treatments[j]>> \in sim_log
            /\ sim_log' = sim_log]_vars
    /\ [](/\ (\E n \in 1..Len(Factors) : RunsOfSize(n) # {}) => "baseline" \in done_steps
          /\ (\E n \in 2..Len(Factors) : RunsOfSize(n) # {}) =>
                /\ {"singles", "fit", "select"} \subseteq done_steps
                /\ \A j \in 1..Len(treatments) : <<treatments[j]>> \in sim_log
          /\ "singles" \in done_steps => "baseline" \in done_steps
          /\ "fit" \in done_steps => "singles" \in done_steps
          /\ "select" \in done_steps => "fit" \in done_steps
          /\ "report" \in done_steps =>
                /\ "select" \in done_steps
                /\ c_idx = Len(selected) + 1 /\ ac_status = "idle")
    /\ [][done_steps \subseteq done_steps']_vars

\* C17 witness: a finished session over three treatments whose report is not
\* empty: singles, a fit, a selection and a simulated combination all happened.
C17_Witness ==
    /\ pc = "done" /\ report # << >> /\ Len(treatments) = 3
    /\ done_steps = {"baseline", "singles", "fit", "select", "report"}
    /\ RunsOfSize(2) \cup RunsOfSize(3) # {}

\* C18: the baseline Configuration is sampled once: after phase 1 no
\* adaptive_consensus call and no simulation is for the baseline again.  Once
\* phase 1 has stored the baseline outcome it never changes, and once fitted the
\* effects never change: through every later fit, prediction, scoring and
\* synergy computation the baseline is still the outcome recorded in the
\* baseline result row and the effects are still what fit_surrogate gives for
\* the baseline and the singles.
C18_BaselineFixed ==
    /\ [][ac_config' # ac_config => ac_config' # << >>]_vars
    /\ [][("baseline" \in done_steps /\ n_invoked' = n_invoked + 1) =>
              ac_config' # << >>]_vars
    /\ [][("baseline" \in done_steps) =>
              baseline_mean' = baseline_mean /\ n_base' = n_base]_vars
    /\ [][("fit" \in done_steps) => effects' = effects]_vars
    /\ [](/\ all_results # << >> =>
                /\ all_results[1].type = "baseline"
                /\ all_results[1].outcomes = baseline_mean
                /\ \A j \in 2..Len(all_results) : all_results[j].type # "baseline"
          /\ "fit" \in done_steps => effects = fit_surrogate(baseline_mean, singles))

\* C18 witness: a finished session with a non-zero fitted effect and an
\* evaluated combination, i.e. fit, prediction, scoring, selection and synergy
\* have all used the baseline and the effects.
C18_Witness ==
    /\ pc = "done" /\ combo_results # << >> /\ baseline_mean # EmptyDict
    /\ \E t \in DOMAIN effects : \E key \in KeySet : effects[t][key] # 0
    /\ \E j \in 1..Len(combo_results) : combo_results[j].synergy["mean"] # 0

\* the multi-factor configurations simulated so far
ComboRuns == {c \in sim_log : Len(c) >= 2}

\* C19: the ranked list is the candidates in ascending order of predicted
\* composite score (equal scores in generation order), and every multi-factor
\* Configuration that is ever simulated is one of its first min(top_k, number of
\* candidates) entries, so at most top_k combinations are run in a session.
C19_OnlySelectedSimulated ==
    /\ [][all_scored' # all_scored =>
            LET scored == score_all(baseline_mean', effects', all_combos_of(treatments'))
            IN  /\ Len(all_scored') = Len(scored)
                /\ \A i \in 1..Len(scored) : all_scored'[RankOf(scored, i)] = scored[i]]_vars
    /\ [](LET k == IF args.top_k < Len(all_scored) THEN args.top_k ELSE Len(all_scored)
          IN  /\ \A c \in ComboRuns : \E j \in 1..k : all_scored[j].combo = c
              /\ Cardinality(ComboRuns) <= args.top_k)

\* C19 witness: a finished session with four candidates and top_k = 2 in which
\* exactly two combinations were simulated, the best-ranked one not being the
\* first candidate generated.
C19_Witness ==
    /\ pc = "done" /\ args.top_k = 2 /\ Len(all_scored) = 4
    /\ Cardinality(ComboRuns) = 2
    /\ selected[1].combo # all_combos_of(treatments)[1]
    /\ selected[1].combo \in ComboRuns

IsScore == call.fn = "composite_score" /\ call.done

\* C20 (as claimed): with every component of the outcome present and every
\* baseline component present and non-zero, the composite score is
\* 0.4 x t50 / max(b_t50, 0.1) + 0.3 x scar / max(b_scar, 1e-6)
\* + 0.3 x infl / max(b_infl, 1e-6), the outcome values entering as they are, an
\* outcome component of exactly 0 included.
C20_WeightedSumOfRatios ==
    (/\ IsScore
     /\ \A key \in KeySet : call.outcomes[key] # None /\ Truthy(call.baseline[key])) =>
        LET o  == call.outcomes
            b  == call.baseline
            s1 == FAdd(0, FMul(W40, FDiv(o["time_to_50pct_days"],
                                         FMax(b["time_to_50pct_days"], T50Floor))))
            s2 == FAdd(s1, FMul(W30, FDiv(o["scar_magnitude"],
                                          FMax(b["scar_magnitude"], SmallFloor))))
        IN  call.ret = FAdd(s2, FMul(W30, FDiv(o["peak_inflammation"],
                                               FMax(b["peak_inflammation"], SmallFloor))))

\* the early-stopping test passes on the first k successful replicates
StopsAt(list, k) ==
    /\ k >= 1 /\ k >= args.min_runs
    /\ _compute_cv(SubSeq(list, 1, k)) < args.cv_threshold

\* C21: adaptive_consensus converges exactly when a successful replicate brings
\* the list to at least min_runs outcomes with a mean CV below cv_threshold, and
\* that is the first time the test passes: no shorter prefix of the collected
\* outcomes passed it.  From that point nothing is simulated for the
\* Configuration: the only step left is the return, and the run count returned
\* is the number of successes collected at that point.
C21_StopsAtFirstConvergence ==
    /\ [][outcomes_list' # outcomes_list =>
            (ac_status' = "converged" <=> StopsAt(outcomes_list', Len(outcomes_list')))]_vars
    /\ [](ac_status \in {"collecting", "converged"} =>
            \A k \in 1..Len(outcomes_list) :
                StopsAt(outcomes_list, k) => (ac_status = "converged" /\ k = Len(outcomes_list)))
    /\ [][ac_status = "converged" =>
            /\ ac_status' = "returned"
            /\ n_invoked' = n_invoked /\ sim_log' = sim_log
            /\ outcomes_list' = outcomes_list
            /\ ac_ret'.how = "converged" /\ ac_ret'.n_runs = Len(outcomes_list)]_vars
    /\ [](ac_ret.how = "converged" =>
            /\ ac_status = "returned" /\ ac_ret.n_runs = Len(outcomes_list)
            /\ StopsAt(outcomes_list, Len(outcomes_list)))

\* C21 witness: min_runs = 1; the first success did not pass the test (one value
\* has CV 1.0), the second did, and the call returned 2 runs with an invocation
\* of its max_runs = 3 left unused.
C21_Witness ==
    /\ ac_status = "returned" /\ ac_ret.how = "converged"
    /\ args.min_runs = 1 /\ args.max_runs = 3
    /\ Len(outcomes_list) = 2 /\ ac_ret.n_runs = 2 /\ n_invoked = 2
    /\ ~StopsAt(outcomes_list, 1)

\* the step is a replicate that failed or delivered no rows
FailedStep == n_invoked' = n_invoked + 1 /\ ~proc'.recorded

\* C22 (as claimed): the count compared against max_runs is the number of
\* successful replicates only, and the invocations stay below a ceiling.
C22_BudgetsCountSuccesses ==
    /\ ac_status \in {"collecting", "converged", "exhausted"} => ac_i = Len(outcomes_list)
    /\ n_invoked <= args.max_runs

\* C22 (amended): a failed replicate is skipped: it adds nothing to the list of
\* outcomes, whose length is the count compared against min_runs.  The count
\* compared against max_runs is the loop index, which advances on every
\* invocation, failed or successful: max_runs is the attempt ceiling, the call
\* is exhausted exactly when max_runs invocations were made without
\* convergence, and every failure leaves one success fewer within reach.
C22_FailuresCountTowardMaxRuns ==
    /\ [][FailedStep =>
            /\ outcomes_list' = outcomes_list
            /\ ac_i' = ac_i + 1
            /\ ac_status' = IF ac_i + 1 < args.max_runs THEN "collecting" ELSE "exhausted"]_vars
    /\ [](/\ ac_i = n_invoked
          /\ n_invoked <= FMax(args.max_runs, 0)
          /\ Len(outcomes_list) <= n_invoked
          /\ ac_status = "converged" => Len(outcomes_list) >= args.min_runs
          /\ ac_status = "exhausted" => n_invoked = FMax(args.max_runs, 0)
          /\ ac_status = "collecting" => n_invoked < args.max_runs)

\* C22 witness: min_runs = max_runs = 3 and one failure: the two successes are
\* identical (CV 0, below the threshold), yet the call is exhausted with 2 runs,
\* because the failure used up one of the three invocations.
C22_Witness ==
    /\ ac_status = "returned" /\ ac_ret.how = "exhausted"
    /\ args.min_runs = 3 /\ args.max_runs = 3 /\ n_invoked = 3
    /\ ac_ret.n_runs = 2 /\ outcomes_list[1] = outcomes_list[2]
    /\ _compute_cv(outcomes_list) < args.cv_threshold

\* C23 (as claimed): every adaptive_consensus execution in which each simulation
\* invocation returns eventually leaves the collecting state and returns, either
\* converged or exhausted after max_runs invocations without convergence, with
\* the aggregate over exactly the successful replicates collected (no data if
\* there were none); it never ends in any other way.
C23_EndsConvergedOrExhausted ==
    /\ <>(ac_status = "returned")
    /\ [](ac_status \in {"collecting", "converged", "exhausted", "returned"})
    /\ [](ac_status = "returned" =>
            /\ ac_ret.how \in {"converged", "exhausted"}
            /\ ac_ret.how = "exhausted" => n_invoked = FMax(args.max_runs, 0)
            /\ ac_ret.n_runs = Len(outcomes_list)
            /\ IF outcomes_list = << >> THEN ac_ret.mean_out = EmptyDict
               ELSE ac_ret.mean_out = _aggregate_outcomes(outcomes_list).mean_out)

\* the exact (integer) sum of a sequence of values
RECURSIVE SumSeq(_)
SumSeq(s) == IF s = << >> THEN 0 ELSE SumSeq(SubSeq(s, 1, Len(s) - 1)) + s[Len(s)]

\* the fitted deltas of the factors of combo on one key, 0 for a factor without
\* a fitted effect
DeltasOf(combo, key) ==
    [j \in 1..Len(combo) |-> IF combo[j] \in DOMAIN call.effects
                             THEN call.effects[combo[j]][key] ELSE 0]

\* C24: fit_surrogate has an entry for exactly the factors with a single-factor
\* outcome, holding for every tracked key the floating-point difference
\* factor_outcome[key] - baseline_outcome[key], and 0 when either value is
\* missing.  For every tracked key the baseline has a value for, predict_combo
\* returns the baseline value plus the sum of the deltas of the factors of the
\* subset, the deltas summed in subset order and the baseline added last, each
\* addition in floating point; when no step rounds this is the exact value
\* baseline + sum of (factor_outcome - baseline).
C24_FitAndPredict ==
    IsPredict =>
        /\ DOMAIN call.effects = DOMAIN call.singles
        /\ \A f \in DOMAIN call.singles, key \in KeySet :
              LET b == Get(call.baseline, key)
                  t == Get(call.singles[f], key)
              IN  call.effects[f][key] = (IF b # None /\ t # None THEN Fl(t - b) ELSE 0)
        /\ \A key \in KeySet :
              LET b      == Get(call.baseline, key)
                  deltas == DeltasOf(call.combo, key)
                  exact  == /\ \A f \in Range(call.combo) \cap DOMAIN call.singles :
                                  LET t == Get(call.singles[f], key)
                                  IN  t # None => Fl(t - b) = t - b
                            /\ \A k \in 1..Len(deltas) :
                                  Fl(SumSeq(SubSeq(deltas, 1, k))) = SumSeq(SubSeq(deltas, 1, k))
                            /\ Fl(b + SumSeq(deltas)) = b + SumSeq(deltas)
              IN  b # None =>
                    /\ call.ret[key] = FAdd(b, FSum(deltas))
                    /\ exact => call.ret[key] = b + SumSeq(deltas)

\* C24 witness: a two-factor subset, both factors fitted, with a key on which
\* both deltas are non-zero and the prediction is exactly baseline + delta +
\* delta, and a key missing from one factor's outcome whose delta is 0.
C24_Witness ==
    /\ IsPredict /\ call.combo = <<"hbo", "npwt">>
    /\ DOMAIN call.singles = {"hbo", "npwt"}
    /\ LET b == call.baseline["peak_inflammation"]
           h == call.effects["hbo"]["peak_inflammation"]
           n == call.effects["npwt"]["peak_inflammation"]
       IN  /\ h # 0 /\ n # 0
           /\ h = call.singles["hbo"]["peak_inflammation"] - b
           /\ call.ret["peak_inflammation"] = b + h + n
    /\ call.singles["hbo"]["scar_magnitude"] = None
    /\ call.baseline["scar_magnitude"] = Val(6)
    /\ call.effects["hbo"]["scar_magnitude"] = 0
    /\ call.effects["npwt"]["scar_magnitude"] = -Val(6)
    /\ call.ret["scar_magnitude"] = 0

\* m is the floating-point value nearest to S / n
NearestMean(m, S, n) == Fl(m) = m /\ 2 * Abs(n * m - S) <= n * Ulp(Abs(m))

\* C25: the consensus has as many timesteps as the longest surviving run, in the
\* mean and in the std series of every column.  At every timestep index the
\* contributors are exactly the surviving runs with a sample at that index (at
\* least one): the mean is the float nearest to the float sum of their samples
\* divided by their number, the std is the square root of their mean squared
\* deviation with the same divisor, and where a single run contributes the mean
\* is its sample and the std is 0.
C25_PerIndexContributors ==
    (IsAggregate /\ call.ret.kept # << >>) =>
        LET runs    == call.ret.kept
            longest == MaxOf({RowsOf(runs[j]) : j \in 1..Len(runs)})
        IN  \A col \in Columns :
              /\ Len(call.ret.mean_data[col]) = longest
              /\ Len(call.ret.std_data[col]) = longest
              /\ \A i \in 1..longest :
                    LET who  == SelectSeq(runs, LAMBDA d : RowsOf(d) >= i)
                        n    == Cardinality({j \in 1..Len(runs) : RowsOf(runs[j]) >= i})
                        vals == [j \in 1..Len(who) |-> who[j][col][i]]
                        m    == call.ret.mean_data[col][i]
                        sq   == [j \in 1..Len(who) |->
                                    FMul(FSub(vals[j], m), FSub(vals[j], m))]
                    IN  /\ n >= 1 /\ n = Len(who)
                        /\ NearestMean(m, FSum(vals), n)
                        /\ call.ret.std_data[col][i] = FSqrt(FDivInt(FSum(sq), n))
                        /\ n = 1 => (m = vals[1] /\ call.ret.std_data[col][i] = 0)

\* C25 witness: three surviving runs of 4, 2 and 3 rows.  At index 3 two of the
\* three contribute, both with 14: the mean is 14 (a divisor of 3 would give
\* about 9.3) and the std is 0; at index 1 all three contribute and differ.
C25_Witness ==
    /\ IsAggregate /\ Len(call.ret.kept) = 3 /\ call.ret.n_dropped = 0
    /\ [j \in 1..3 |-> RowsOf(call.ret.kept[j])] = <<4, 2, 3>>
    /\ Len(call.ret.mean_data["wound_closure_pct"]) = 4
    /\ call.ret.mean_data["wound_closure_pct"][3] = Val(14)
    /\ call.ret.std_data["wound_closure_pct"][3] = 0
    /\ call.ret.std_data["wound_closure_pct"][1] > 0

\* C26: whenever at least one run has a sample, whatever min_length_fraction is,
\* aggregate_csvs returns a consensus that is not empty: every column has a mean
\* and a std series of at least one timestep.  When no run reaches the length
\* threshold max(1, floor(median x fraction)), every run counts as dropped and the
\* consensus is taken over the full unfiltered set, up to its longest run.
C26_NeverEmpty ==
    (IsAggregate /\ RunsOf(call.loaded) # << >>) =>
        LET runs    == RunsOf(call.loaded)
            f       == call.frac
            lengths == [j \in 1..Len(runs) |-> RowsOf(runs[j])]
        IN  /\ call.ret.kept # << >>
            /\ \A col \in Columns :
                  Len(call.ret.mean_data[col]) >= 1 /\ Len(call.ret.std_data[col]) >= 1
            /\ \A m \in 1..MaxRows + 1, T \in 1..2 * (MaxRows + 1) :
                 (/\ IsUpperMedian(m, lengths)
                  /\ \/ (T = 1 /\ m * f.num < 2 * f.den)
                     \/ (T * f.den <= m * f.num /\ m * f.num < (T + 1) * f.den)
                  /\ \A j \in 1..Len(runs) : lengths[j] < T) =>
                    /\ call.ret.kept = runs
                    /\ call.ret.n_dropped = Len(runs)
                    /\ \A col \in Columns :
                          Len(call.ret.mean_data[col]) = MaxOf(Range(lengths))

\* C26 witness: three runs of 2, 3 and 4 rows at fraction 2 (median 3, threshold
\* 6): all three are rejected, and the consensus is over all three, 4 timesteps.
C26_Witness ==
    /\ IsAggregate /\ call.frac = [num |-> 2, den |-> 1]
    /\ [j \in 1..Len(call.loaded) |-> RowsOf(call.loaded[j])] = <<2, 3, 4>>
    /\ call.ret.min_len = 6 /\ call.ret.n_dropped = 3
    /\ Len(call.ret.kept) = 3
    /\ Len(call.ret.mean_data["wound_closure_pct"]) = 4

IsEnumerate == call.fn = "enumerate" /\ call.done

\* C27 (as claimed): for every accepted treatment list, one with a repeated name
\* included, the candidates are exactly the subsets of size >= 2 of the factor
\* set, each once: every candidate has at least 2 distinct factors, no two
\* candidates are the same set (nor carry the same label), and N distinct
\* factors give 2^N - N - 1 candidates.
C27_CandidatesAreSubsets ==
    (IsEnumerate /\ call.ok) =>
        LET F     == Range(call.treatments)
            N     == Cardinality(F)
            cands == call.all_combos
        IN  /\ \A j \in 1..Len(cands) : Cardinality(Range(cands[j])) >= 2
            /\ \A i, j \in 1..Len(cands) :
                  i # j => (Range(cands[i]) # Range(cands[j])
                            /\ call.labels[i] # call.labels[j])
            /\ {Range(cands[j]) : j \in 1..Len(cands)} = {S \in SUBSET F : Cardinality(S) >= 2}
            /\ Len(cands) = Pow2(N) - N - 1

\* the values of one key over the outcomes collected, missing ones left out
PresentValues(list, key) ==
    LET have == SelectSeq(list, LAMBDA o : key \in DOMAIN o /\ o[key] # None)
    IN  [j \in 1..Len(have) |-> have[j][key]]

\* no tracked key has at least 2 values with a non-zero mean
NoKeyVaries(list) ==
    \A key \in KeySet :
        Len(PresentValues(list, key)) < 2 \/ SumSeq(PresentValues(list, key)) = 0

\* C28: the mean CV of a list in which no tracked key has at least 2 values with
\* a non-zero mean is 1.0.  Hence with cv_threshold <= 1 adaptive_consensus
\* never converges on fewer than 2 successful replicates, whatever min_runs is,
\* and a Configuration whose tracked outcomes are all missing or all zero-mean
\* never converges: it returns exhausted, after max_runs invocations.
C28_NoConvergenceWithoutVariation ==
    /\ NoKeyVaries(outcomes_list) => _compute_cv(outcomes_list) = Val(1)
    /\ args.cv_threshold <= Val(1) =>
          /\ (ac_status = "converged" \/ ac_ret.how = "converged") =>
                (Len(outcomes_list) >= 2 /\ ~NoKeyVaries(outcomes_list))
          /\ (ac_status = "returned" /\ NoKeyVaries(outcomes_list)) =>
                (ac_ret.how = "exhausted" /\ n_invoked = FMax(args.max_runs, 0))

\* C28 witness: min_runs = 0 and cv_threshold = 1.0; three replicates succeeded,
\* each with no time to 50% closure and zero scar and inflammation, and the call
\* returned exhausted after its max_runs = 3 invocations.
C28_Witness ==
    /\ ac_status = "returned" /\ ac_ret.how = "exhausted"
    /\ args.min_runs = 0 /\ args.cv_threshold = Val(1) /\ args.max_runs = 3
    /\ n_invoked = 3 /\ outcomes_list = <<SimZ, SimZ, SimZ>>

IsReplicates == call.fn = "replicates"

\* C29 (as claimed): in every replicate loop, at every moment up to the
\* aggregation or return of the list, the raw directory the artifacts are copied
\* into exists, no copy fails for want of it, and every recorded path holds the
\* file of the run it was recorded for: no invocation's clean-up removed or
\* replaced it.
C29_RecordedArtifactsKept ==
    IsReplicates =>
        /\ call.status # "raised"
        /\ call.i > 0 => RawDirOf(call.loop) \in DOMAIN call.fs
        /\ \A j \in 1..Len(call.csv_paths) :
              /\ call.csv_paths[j].path \in DOMAIN call.fs
              /\ call.fs[call.csv_paths[j].path] = call.csv_paths[j].run


\* combo with the factor f left out
RECURSIVE LeaveOut(_, _)
LeaveOut(combo, f) ==
    IF combo = << >> THEN << >>
    ELSE IF Head(combo) = f THEN LeaveOut(Tail(combo), f)
    ELSE <<Head(combo)>> \o LeaveOut(Tail(combo), f)

\* C30: a factor without a single-factor outcome has no entry in the fitted
\* effects, and the prediction of any subset containing it equals the
\* prediction of that subset without it.  Every candidate containing such a
\* factor is still scored, with the score of that prediction, and selected
\* exactly when fewer than top_k candidates precede it in the stable ascending
\* order of scores.
C30_UnfittedFactorIsNeutral ==
    /\ IsPredict =>
          \A f \in Range(call.combo) \ DOMAIN call.singles :
              /\ f \notin DOMAIN call.effects
              /\ call.ret = predict_combo(call.baseline, call.effects,
                                          LeaveOut(call.combo, f))
    /\ IsSelect =>
          LET scored == score_all(call.baseline, call.effects, call.all_combos)
          IN  \A j \in 1..Len(call.all_combos) :
                \A f \in Range(call.all_combos[j]) \ DOMAIN call.effects :
                  LET rest == predict_combo(call.baseline, call.effects,
                                            LeaveOut(call.all_combos[j], f))
                      rank == RankOf(scored, j)
                  IN  /\ scored[j].combo = call.all_combos[j]
                      /\ scored[j].predicted = rest
                      /\ scored[j].score = composite_score(rest, call.baseline)
                      /\ (rank <= call.top_k) <=>
                            (\E r \in 1..Len(call.ret) :
                                call.ret[r].combo = call.all_combos[j])
                      /\ rank <= call.top_k => call.ret[rank] = scored[j]

\* C30 witness: the best-ranked candidate of a selection contains a factor
\* without a fitted effect next to a fitted one, and its prediction differs from
\* the baseline.
C30_Witness ==
    /\ IsSelect /\ call.top_k >= 1 /\ Len(call.ret) >= 1
    /\ LET best == call.ret[1]
       IN  /\ Range(best.combo) \ DOMAIN call.effects # {}
           /\ Range(best.combo) \cap DOMAIN call.effects # {}
           /\ best.predicted["peak_inflammation"] # call.baseline["peak_inflammation"]
           /\ Len(call.all_combos) > 1

=============================================================================
